---- MODULE Spec2Model ----
(***************************************************************************)
(* A model of src/sync_leetcode.py: the LeetCodeGitHubSync class and the   *)
(* main() entry point that mirror accepted LeetCode submissions into a     *)
(* GitHub repository.                                                      *)
(*                                                                         *)
(* Text that the program converts (str.lower, int(), the :04d format) is   *)
(* a sequence of one-character strings; text that it only copies is a      *)
(* string.  A storage path is the sequence of its "/"-separated            *)
(* components, PathStr joins them.                                         *)
(***************************************************************************)
EXTENDS Integers, Sequences, FiniteSets, TLC

(***************************************************************************)
(* Bounds of the model.                                                    *)
(***************************************************************************)
MaxListing == 3     \* longest submissions_dump the platform returns

(***************************************************************************)
(* Text helpers.                                                           *)
(***************************************************************************)
RECURSIVE Join(_)
Join(s) == IF s = <<>> THEN "" ELSE s[1] \o Join(Tail(s))

UpperCase == <<"A","B","C","D","E","F","G","H","I","J","K","L","M",
               "N","O","P","Q","R","S","T","U","V","W","X","Y","Z">>
LowerCase == <<"a","b","c","d","e","f","g","h","i","j","k","l","m",
               "n","o","p","q","r","s","t","u","v","w","x","y","z">>

LowerChar(c) ==
    IF \E k \in 1..26 : UpperCase[k] = c
    THEN LowerCase[CHOOSE k \in 1..26 : UpperCase[k] = c]
    ELSE c

\* str.lower()
Lower(s) == [k \in 1..Len(s) |-> LowerChar(s[k])]

\* str.replace(' ', '-')
ReplaceSpace(s) == [k \in 1..Len(s) |-> IF s[k] = " " THEN "-" ELSE s[k]]

DigitChars == <<"0","1","2","3","4","5","6","7","8","9">>

DigitVal(c) == (CHOOSE k \in 1..10 : DigitChars[k] = c) - 1

\* int(text) for a decimal numeral
RECURSIVE ParseInt(_)
ParseInt(s) ==
    IF s = <<>> THEN 0
    ELSE 10 * ParseInt(SubSeq(s, 1, Len(s) - 1)) + DigitVal(s[Len(s)])

RECURSIVE Digits(_)
Digits(n) ==
    IF n < 10 THEN <<DigitChars[n + 1]>>
    ELSE Digits(n \div 10) \o <<DigitChars[(n % 10) + 1]>>

RECURSIVE ZeroFill(_, _)
ZeroFill(s, width) == IF Len(s) >= width THEN s ELSE ZeroFill(<<"0">> \o s, width)

\* the format specification :04d applied to a non-negative integer
PadWidth == 4
Format04d(n) == ZeroFill(Digits(n), PadWidth)

\* :02d, used by strftime for the day of the month
Format02d(n) == ZeroFill(Digits(n), 2)

(***************************************************************************)
(* Class constants and the pure methods.                                   *)
(***************************************************************************)
EXTENSIONS ==
    ( "python" :> "py" @@ "python3" :> "py" @@ "java" :> "java" @@
      "cpp" :> "cpp" @@ "c++" :> "cpp" @@ "javascript" :> "js" @@
      "typescript" :> "ts" @@ "golang" :> "go" @@ "ruby" :> "rb" @@
      "swift" :> "swift" @@ "kotlin" :> "kt" @@ "rust" :> "rs" @@
      "scala" :> "scala" @@ "php" :> "php" )

FallbackExtension == "txt"

get_file_extension_upper(lang) ==
    IF Join(lang) \in DOMAIN EXTENSIONS
    THEN EXTENSIONS[Join(lang)] ELSE FallbackExtension

get_file_extension(lang) ==
    IF Join(Lower(lang)) \in DOMAIN EXTENSIONS
    THEN EXTENSIONS[Join(Lower(lang))] ELSE FallbackExtension

folder_name_unpadded(problem, submission) ==
    Join(Digits(ParseInt(problem.questionId))) \o "-" \o submission.title_slug

folder_name(problem, submission) ==
    Join(Format04d(ParseInt(problem.questionId))) \o "-" \o submission.title_slug

base_path(problem, submission) ==
    << Join(Lower(problem.difficulty)), folder_name(problem, submission) >>

solution_path(problem, submission) ==
    Append(base_path(problem, submission),
           "solution." \o get_file_extension(submission.lang))

readme_path(problem, submission) ==
    Append(base_path(problem, submission), "README.md")

RECURSIVE PathStr(_)
PathStr(p) ==
    IF p = <<>> THEN ""
    ELSE IF Len(p) = 1 THEN p[1]
    ELSE p[1] \o "/" \o PathStr(Tail(p))

SecondsPerDay == 86400

\* datetime.fromtimestamp(ts, tz=utc).strftime('%Y-%m-%d'), for the
\* timestamps of January 1970 the model uses
submission_date(ts) == "1970-01-" \o Join(Format02d((ts \div SecondsPerDay) + 1))

\* the row of the statistics table; OK stands for the check mark
stats_row(submission) ==
    "| " \o Join(submission.lang) \o " | " \o submission.runtime \o " | "
         \o submission.memory \o " | OK | "
         \o submission_date(submission.timestamp) \o " |\n"

RECURSIVE JoinTags(_)
JoinTags(tags) ==
    IF tags = <<>> THEN ""
    ELSE IF Len(tags) = 1 THEN tags[1]
    ELSE tags[1] \o ", " \o JoinTags(Tail(tags))

create_problem_readme(problem, stats) ==
    "# " \o Join(problem.questionId) \o ". " \o Join(problem.title)
      \o "\n\n## Difficulty: " \o Join(problem.difficulty)
      \o "\n## Topics: " \o JoinTags(problem.topicTags)
      \o "\n\n## Problem\n\n" \o problem.content
      \o "\n\n## Solution Stats\n\n"
      \o "| Language | Runtime | Memory | Status | Last Submission |\n"
      \o "|----------|---------|--------|--------|-----------------|\n"
      \o stats
      \o "\n[View on LeetCode](https://leetcode.com/problems/"
      \o Join(ReplaceSpace(Lower(problem.title))) \o ")\n"

\* str.encode('utf-8') and bytes.decode('utf-8')
Encode(text) == [utf8 |-> text]
Decode(bytes) == bytes.utf8


(***************************************************************************)
(* The two remote services.  The judging platform holds the question data  *)
(* and the submissions_dump it answers with; the store holds the           *)
(* repository's files.                                                     *)
(***************************************************************************)
ReverseLinkedList ==
    [ questionId |-> <<"2","0","6">>,
      title      |-> <<"R","e","v","e","r","s","e"," ","L","i","s","t">>,
      difficulty |-> <<"E","a","s","y">>,
      content    |-> "<p>Reverse a singly linked list.</p>",
      topicTags  |-> <<"Linked List", "Recursion">> ]

DeleteMiddleNode ==
    [ questionId |-> <<"2","2","1","6">>,
      title      |-> <<"D","e","l","e","t","e"," ","M","i","d","d","l","e">>,
      difficulty |-> <<"M","e","d","i","u","m">>,
      content    |-> "<p>Delete the middle node.</p>",
      topicTags  |-> <<"Linked List">> ]

\* the question the platform answers with, by titleSlug
ProblemDB ==
    ( "reverse-linked-list" :> ReverseLinkedList @@
      "delete-the-middle-node-of-a-linked-list" :> DeleteMiddleNode )

SubPython ==
    [ title_slug |-> "reverse-linked-list", title |-> "Reverse Linked List",
      lang |-> <<"p","y","t","h","o","n">>, code |-> "class A: pass",
      runtime |-> "0 ms", memory |-> "16.5 MB", timestamp |-> 0,
      status_display |-> "Accepted" ]

SubPython3 ==
    [ title_slug |-> "reverse-linked-list", title |-> "Reverse Linked List",
      lang |-> <<"P","y","t","h","o","n","3">>, code |-> "class B: pass",
      runtime |-> "4 ms", memory |-> "17.0 MB", timestamp |-> 86400,
      status_display |-> "Accepted" ]

SubCobol ==
    [ title_slug |-> "delete-the-middle-node-of-a-linked-list",
      title |-> "Delete Middle", lang |-> <<"c","o","b","o","l">>,
      code |-> "STOP RUN.", runtime |-> "9 ms", memory |-> "1.0 MB",
      timestamp |-> 90000, status_display |-> "Accepted" ]

SubWrong ==
    [ title_slug |-> "reverse-linked-list", title |-> "Reverse Linked List",
      lang |-> <<"p","y","t","h","o","n">>, code |-> "class W: pass",
      runtime |-> "N/A", memory |-> "N/A", timestamp |-> 50,
      status_display |-> "Wrong Answer" ]

SubmissionPool == { SubPython, SubPython3, SubCobol, SubWrong }

\* every submissions_dump the platform may answer with
RECURSIVE ListingsOfLength(_)
ListingsOfLength(n) ==
    IF n = 0 THEN { <<>> }
    ELSE { Append(l, s) : l \in ListingsOfLength(n - 1), s \in SubmissionPool }

Listings == UNION { ListingsOfLength(n) : n \in 0..MaxListing }

Sha(bytes) == << "blob", bytes.utf8 >>
Blob(bytes) == [ content |-> bytes, sha |-> Sha(bytes) ]

EmptyStore == [ p \in {} |-> Blob(Encode("")) ]

\* a repository that already holds a root README and an older solution
SeededStore ==
    ( <<"README.md">> :> Blob(Encode("# LeetCode Solutions")) @@
      solution_path(DeleteMiddleNode, SubCobol) :> Blob(Encode("GOBACK.")) )

InitialStores == { SeededStore }

IsPrefix(d, p) == Len(d) < Len(p) /\ SubSeq(p, 1, Len(d)) = d

\* what repo.get_contents(dir) lists: the entries directly under dir
Entries(st, dir) ==
    { [ path |-> SubSeq(p, 1, Len(dir) + 1),
        type |-> IF Len(p) = Len(dir) + 1 THEN "file" ELSE "dir" ] :
      p \in { q \in DOMAIN st : IsPrefix(dir, q) } }

RECURSIVE SetToSeq(_)
SetToSeq(S) ==
    IF S = {} THEN <<>>
    ELSE LET x == CHOOSE y \in S : TRUE IN <<x>> \o SetToSeq(S \ {x})

\* the errors the remote services answer with; str(e) begins with the status
PlatformErrors == { "500", "429" }
StoreErrors == { "500" }
NotFound == "404"
Conflict == "409"
Unprocessable == "422"
ValueError == "ValueError"
NoError == "none"
NoContent == "<none>"

\* "404" in str(e)
Has404(e) == e = NotFound


(***************************************************************************)
(* The state of a run of main().                                           *)
(***************************************************************************)
VARIABLES
    env,            \* os.getenv: GH_PAT, GITHUB_REPO, LEETCODE_SESSION
    listing,        \* the platform's submissions_dump
    store,          \* the repository: path -> [content, sha]
    rerun,          \* this run follows a completed run on the same store
    pc,             \* where main() stands
    path_cache,     \* self.path_cache
    contents,       \* the traversal queue of _init_path_cache
    cache_error,    \* the error _init_path_cache logged, if any
    retry,          \* the wrapper of retry_with_backoff around the current call
    submissions,    \* the list sync_solutions iterates over
    idx,            \* position of the for loop in submissions
    problem_data,   \* process_submission's problem_data
    art,            \* the artifact being written: "solution" or "readme"
    file_path,      \* _update_or_create_file's file_path
    content,        \* _update_or_create_file's content
    current,        \* the read's result: [found, content, sha]
    error,          \* the exception main() ended with
    processed,      \* the submissions passed to process_submission, in order
    writes,         \* the update_file and create_file calls of this run, in order
    log             \* the remote calls of the current stage of the run, in
                    \* order: of the start-up, then of each process_submission
                    \* (a wrapped call is one entry, its attempts are in retry)

vars == << env, listing, store, rerun, pc, path_cache, contents,
           cache_error, retry, submissions, idx, problem_data, art,
           file_path, content, current, error, processed, writes, log >>

Retries == 3
BackoffInSeconds == 1

NoProblem ==
    [ questionId |-> <<>>, title |-> <<>>, difficulty |-> <<>>,
      content |-> "", topicTags |-> <<>> ]

NoCurrent == [ found |-> FALSE, content |-> NoContent, sha |-> <<>> ]

IdleRetry ==
    [ func |-> "none", i |-> 0, calls |-> 0, sleeps |-> <<>>, errs |-> <<>>,
      status |-> "idle", raised |-> NoError ]

NewRetry(f) == [ IdleRetry EXCEPT !.func = f, !.status = "running" ]

\* what the log keeps of a platform call's answer
Answer(res) == IF res = "ok" THEN "ok" ELSE "raised"

Event(op, arg, res, text, known) ==
    [ op |-> op, arg |-> arg, sub |-> idx, res |-> res,
      content |-> text, known |-> known ]

Environments ==
    { [ GH_PAT |-> a, GITHUB_REPO |-> b, LEETCODE_SESSION |-> c ] :
        <<a, b, c>> \in { <<"tok", "user/repo", "sess">>, <<"", "user/repo", "sess">>,
                          <<"tok", "", "sess">>, <<"tok", "user/repo", "">> } }

Init ==
    /\ env \in Environments
    /\ listing \in Listings
    /\ store \in InitialStores
    /\ rerun = FALSE
    /\ pc = "main"
    /\ path_cache = {}
    /\ contents = <<>>
    /\ cache_error = NoError
    /\ retry = IdleRetry
    /\ submissions = <<>>
    /\ idx = 0
    /\ problem_data = NoProblem
    /\ art = "none"
    /\ file_path = <<>>
    /\ content = ""
    /\ current = NoCurrent
    /\ error = NoError
    /\ processed = <<>>
    /\ writes = <<>>
    /\ log = <<>>

\* an exception that reaches main()'s handlers is logged and re-raised
Raise(e) ==
    /\ pc' = "failed"
    /\ error' = e

(***************************************************************************)
(* main(), up to the construction of the syncer.                           *)
(***************************************************************************)
MainEnvForgetsSession ==
    /\ pc = "main"
    /\ IF env.GH_PAT = "" \/ env.GITHUB_REPO = ""
       THEN Raise(ValueError)
       ELSE pc' = "init" /\ error' = error
    /\ UNCHANGED << env, listing, store, rerun, path_cache, contents,
                    cache_error, retry, submissions, idx, problem_data, art,
                    file_path, content, current, log, processed, writes >>

MainEnv ==
    /\ pc = "main"
    /\ IF env.GH_PAT = "" \/ env.GITHUB_REPO = "" \/ env.LEETCODE_SESSION = ""
       THEN Raise(ValueError)
       ELSE pc' = "init" /\ error' = error
    /\ UNCHANGED << env, listing, store, rerun, path_cache, contents,
                    cache_error, retry, submissions, idx, problem_data, art,
                    file_path, content, current, log, processed, writes >>

\* __init__ up to self.path_cache = set(): the credential test and get_repo
Construct ==
    /\ pc = "init"
    /\ IF env.GH_PAT = "" \/ env.GITHUB_REPO = "" \/ env.LEETCODE_SESSION = ""
       THEN Raise(ValueError) /\ log' = log
       ELSE \E res \in {"ok"} \cup StoreErrors \cup {NotFound} :
              /\ log' = Append(log, Event("get_repo", <<env.GITHUB_REPO>>, res, "", NoContent))
              /\ IF res = "ok"
                 THEN pc' = "cache_root" /\ error' = error
                 ELSE Raise(res)
    /\ path_cache' = {}
    /\ UNCHANGED << env, listing, store, rerun, contents, cache_error, retry,
                    submissions, idx, problem_data, art, file_path, content,
                    current, processed, writes >>

\* _init_path_cache: contents = self.repo.get_contents("")
InitPathCacheRoot ==
    /\ pc = "cache_root"
    /\ \E res \in {"ok"} \cup StoreErrors :
         /\ log' = Append(log, Event("get_contents", <<>>, res, "", NoContent))
         /\ IF res = "ok"
            THEN /\ contents' = SetToSeq(Entries(store, <<>>))
                 /\ cache_error' = cache_error
                 /\ pc' = IF Entries(store, <<>>) = {} THEN "preflight" ELSE "cache_walk"
            ELSE \* except Exception: logger.error(...)
                 /\ contents' = contents
                 /\ cache_error' = res
                 /\ pc' = "preflight"
    /\ UNCHANGED << env, listing, store, rerun, path_cache, retry, submissions,
                    idx, problem_data, art, file_path, content, current,
                    error, processed, writes >>

\* one turn of the while loop of _init_path_cache
InitPathCacheStep ==
    /\ pc = "cache_walk"
    /\ contents # <<>>
    /\ LET file_content == Head(contents) IN
         /\ path_cache' = path_cache \cup { file_content.path }
         /\ IF file_content.type = "dir"
            THEN \E res \in {"ok"} \cup StoreErrors :
                   /\ log' = Append(log, Event("get_contents", file_content.path, res, "", NoContent))
                   /\ IF res = "ok"
                      THEN /\ contents' = Tail(contents) \o SetToSeq(Entries(store, file_content.path))
                           /\ cache_error' = cache_error
                           /\ pc' = IF Tail(contents) = <<>> /\ Entries(store, file_content.path) = {}
                                    THEN "preflight" ELSE "cache_walk"
                      ELSE /\ contents' = Tail(contents)
                           /\ cache_error' = res
                           /\ pc' = "preflight"
            ELSE /\ contents' = Tail(contents)
                 /\ cache_error' = cache_error
                 /\ log' = log
                 /\ pc' = IF Tail(contents) = <<>> THEN "preflight" ELSE "cache_walk"
    /\ UNCHANGED << env, listing, store, rerun, retry, submissions, idx,
                    problem_data, art, file_path, content, current, error,
                    processed, writes >>

\* main(): the connectivity test, then the call of sync_solutions
Preflight ==
    /\ pc = "preflight"
    /\ \E res \in {"ok"} \cup PlatformErrors :
         /\ log' = Append(log, Event("preflight", <<>>, Answer(res), "", NoContent))
         /\ IF res = "ok"
            THEN /\ pc' = "get_submissions"
                 /\ retry' = NewRetry("get_submissions")
                 /\ error' = error
            ELSE /\ Raise(res)
                 /\ retry' = retry
    /\ UNCHANGED << env, listing, store, rerun, path_cache, contents,
                    cache_error, submissions, idx, problem_data, art,
                    file_path, content, current, processed, writes >>


WaitTimeConstant(i) == BackoffInSeconds

(***************************************************************************)
(* retry_with_backoff: the wrapper's for loop around one wrapped call.     *)
(***************************************************************************)
WaitTime(i) == BackoffInSeconds * 2 ^ i

\* func(self, *args, **kwargs) is invoked
RetryCall(r) == [ r EXCEPT !.calls = @ + 1 ]

\* return func(...)
RetryReturn(r) == [ r EXCEPT !.status = "returned" ]

RetryExceptNoSleep(r, e) ==
    IF r.i = Retries - 1
    THEN [ r EXCEPT !.errs = Append(@, e), !.status = "raised", !.raised = e ]
    ELSE [ r EXCEPT !.errs = Append(@, e), !.i = @ + 1 ]

RetryExceptGivesUpEarly(r, e) ==
    IF r.i = Retries - 2
    THEN [ r EXCEPT !.errs = Append(@, e), !.status = "raised", !.raised = e ]
    ELSE [ r EXCEPT !.errs = Append(@, e),
                    !.sleeps = Append(@, WaitTime(r.i)), !.i = @ + 1 ]

RetryExceptStartsOver(r, e) ==
    IF r.i = Retries - 1
    THEN NewRetry(r.func)
    ELSE [ r EXCEPT !.errs = Append(@, e),
                    !.sleeps = Append(@, WaitTime(r.i)), !.i = @ + 1 ]

RetryExceptFallsThrough(r, e) ==
    IF r.i = Retries - 1
    THEN [ r EXCEPT !.errs = Append(@, e), !.status = "exhausted" ]
    ELSE [ r EXCEPT !.errs = Append(@, e),
                    !.sleeps = Append(@, WaitTime(r.i)), !.i = @ + 1 ]

RetryExceptSwallows(r, e) ==
    IF r.i = Retries - 1
    THEN [ r EXCEPT !.errs = Append(@, e), !.status = "returned" ]
    ELSE [ r EXCEPT !.errs = Append(@, e),
                    !.sleeps = Append(@, WaitTime(r.i)), !.i = @ + 1 ]

\* except Exception as e: raise on the last attempt, else sleep and go on;
\* a loop that runs out without raising makes the wrapper return None
RetryExcept(r, e) ==
    IF r.i = Retries - 1
    THEN [ r EXCEPT !.errs = Append(@, e), !.status = "raised", !.raised = e ]
    ELSE [ r EXCEPT !.errs = Append(@, e),
                    !.sleeps = Append(@, WaitTime(r.i)),
                    !.i = @ + 1,
                    !.status = IF r.i + 1 < Retries THEN "running" ELSE "exhausted" ]

\* one attempt of the wrapped call, answered with res
Attempt(r, res) ==
    IF res = "ok" THEN RetryReturn(RetryCall(r)) ELSE RetryExcept(RetryCall(r), res)

TypeError == "TypeError"

(***************************************************************************)
(* sync_solutions and process_submission.                                  *)
(***************************************************************************)
IsAcceptedOrAny(s) == TRUE

IsAccepted(s) == s.status_display = "Accepted"

\* [s for s in submissions if s['status_display'] == 'Accepted']
AcceptedOf(l) == SelectSeq(l, IsAccepted)

\* one attempt of get_submissions
GetSubmissions ==
    /\ pc = "get_submissions"
    /\ \E res \in {"ok"} \cup PlatformErrors :
         LET r == Attempt(retry, res) IN
         /\ retry' = r
         /\ log' = IF r.status = "running" THEN log
                   ELSE Append(log, Event("get_submissions", <<>>, Answer(res), "", NoContent))
         /\ CASE r.status = "returned" ->
                   /\ submissions' = AcceptedOf(listing)
                   /\ idx' = 1
                   /\ pc' = "loop"
                   /\ error' = error
              [] r.status = "raised" ->
                   /\ Raise(r.raised)
                   /\ UNCHANGED << submissions, idx >>
              [] r.status = "exhausted" ->
                   /\ Raise(TypeError)
                   /\ UNCHANGED << submissions, idx >>
              [] OTHER ->
                   UNCHANGED << submissions, idx, pc, error >>
    /\ UNCHANGED << env, listing, store, rerun, path_cache, contents,
                    cache_error, problem_data, art, file_path, content,
                    current, processed, writes >>

\* for submission in submissions: self.process_submission(submission)
LoopNext ==
    /\ pc = "loop"
    /\ IF idx > Len(submissions)
       THEN /\ pc' = "done"
            /\ retry' = IdleRetry
            /\ UNCHANGED << processed, log >>
       ELSE /\ pc' = "details"
            /\ retry' = NewRetry("get_problem_details")
            /\ processed' = Append(processed, submissions[idx])
            /\ log' = <<>>
    /\ UNCHANGED << env, listing, store, rerun, path_cache, contents,
                    cache_error, submissions, idx, problem_data, art,
                    file_path, content, current, error, writes >>

\* one attempt of get_problem_details; on its return process_submission
\* derives the solution path and calls _update_or_create_file
GetProblemDetails ==
    /\ pc = "details"
    /\ \E res \in {"ok"} \cup PlatformErrors :
         LET r == Attempt(retry, res)
             submission == submissions[idx] IN
         /\ retry' = r
         /\ log' = IF r.status = "running" THEN log
                   ELSE Append(log, Event("get_problem_details",
                                          <<submission.title_slug>>, Answer(res), "", NoContent))
         /\ CASE r.status = "returned" ->
                   /\ problem_data' = ProblemDB[submission.title_slug]
                   /\ art' = "solution"
                   /\ file_path' = solution_path(ProblemDB[submission.title_slug], submission)
                   /\ content' = submission.code
                   /\ pc' = "read"
                   /\ error' = error
              [] r.status = "raised" ->
                   /\ Raise(r.raised)
                   /\ UNCHANGED << problem_data, art, file_path, content >>
              [] r.status = "exhausted" ->
                   /\ Raise(TypeError)
                   /\ UNCHANGED << problem_data, art, file_path, content >>
              [] OTHER ->
                   UNCHANGED << problem_data, art, file_path, content, pc, error >>
    /\ UNCHANGED << env, listing, store, rerun, path_cache, contents,
                    cache_error, submissions, idx, current, processed,
                    writes >>

FileDoneSkipsReadme ==
    /\ art' = "none"
    /\ pc' = "loop"
    /\ idx' = idx + 1
    /\ UNCHANGED << file_path, content >>

\* _update_or_create_file has returned: process_submission goes on to the
\* README, or returns to the loop of sync_solutions
FileDone ==
    IF art = "solution"
    THEN /\ art' = "readme"
         /\ file_path' = readme_path(problem_data, submissions[idx])
         /\ content' = create_problem_readme(problem_data, stats_row(submissions[idx]))
         /\ pc' = "read"
         /\ idx' = idx
    ELSE /\ art' = "none"
         /\ pc' = "loop"
         /\ idx' = idx + 1
         /\ UNCHANGED << file_path, content >>

(***************************************************************************)
(* _update_or_create_file.                                                 *)
(***************************************************************************)
ContentChangedAlways(current_content, new_content) == TRUE

ContentChangedNever(current_content, new_content) == FALSE

ContentChangedUnlessCached(current_content, new_content) ==
    current_content # new_content /\ file_path \notin path_cache

ContentChangedByLength(current_content, new_content) ==
    Len(current_content) # Len(new_content)

\* if current_content != content
ContentChanged(current_content, new_content) == current_content # new_content

\* contents = self.repo.get_contents(file_path), and the comparison
GetContents ==
    /\ pc = "read"
    /\ \E res \in (IF file_path \in DOMAIN store THEN {"ok"} ELSE {NotFound})
                    \cup StoreErrors :
         /\ log' = Append(log, Event("get_contents", file_path, res, content,
                                     IF res = "ok" THEN Decode(store[file_path].content)
                                     ELSE NoContent))
         /\ IF res = "ok"
            THEN /\ current' = [ found |-> TRUE,
                                 content |-> Decode(store[file_path].content),
                                 sha |-> store[file_path].sha ]
                 /\ error' = error
                 /\ IF ContentChanged(Decode(store[file_path].content), content)
                    THEN /\ pc' = "update"
                         /\ UNCHANGED << art, file_path, content, idx >>
                    ELSE FileDone
            ELSE /\ current' = NoCurrent
                 /\ UNCHANGED << art, file_path, content, idx >>
                 /\ IF Has404(res)
                    THEN pc' = "create" /\ error' = error
                    ELSE Raise(res)
    /\ retry' = IdleRetry
    /\ UNCHANGED << env, listing, store, rerun, path_cache, contents,
                    cache_error, submissions, problem_data, processed,
                    writes >>

\* self.repo.update_file(path, message, content_bytes, sha=contents.sha)
UpdateFile ==
    /\ pc = "update"
    /\ \E res \in (IF file_path \in DOMAIN store /\ store[file_path].sha = current.sha
                   THEN {"ok"} ELSE {Conflict})
                    \cup StoreErrors \cup {NotFound} :
         /\ log' = Append(log, Event("update_file", file_path, res, content, current.content))
         /\ writes' = Append(writes, Event("update_file", file_path, res, content, current.content))
         /\ IF res = "ok"
            THEN /\ store' = [ store EXCEPT ![file_path] = Blob(Encode(content)) ]
                 /\ error' = error
                 /\ FileDone
            ELSE /\ store' = store
                 /\ UNCHANGED << art, file_path, content, idx >>
                 /\ IF Has404(res)
                    THEN pc' = "create" /\ error' = error
                    ELSE Raise(res)
    /\ UNCHANGED << env, listing, rerun, path_cache, contents, cache_error,
                    retry, submissions, problem_data, current, processed >>

\* self.repo.create_file(path, message, content_bytes), in the 404 handler
CreateFile ==
    /\ pc = "create"
    /\ \E res \in (IF file_path \in DOMAIN store THEN {Unprocessable} ELSE {"ok"})
                    \cup StoreErrors :
         /\ log' = Append(log, Event("create_file", file_path, res, content, current.content))
         /\ writes' = Append(writes, Event("create_file", file_path, res, content, current.content))
         /\ IF res = "ok"
            THEN /\ store' = (file_path :> Blob(Encode(content))) @@ store
                 /\ path_cache' = path_cache \cup { file_path }
                 /\ error' = error
                 /\ FileDone
            ELSE /\ UNCHANGED << store, path_cache >>
                 /\ UNCHANGED << art, file_path, content, idx >>
                 /\ Raise(res)
    /\ UNCHANGED << env, listing, rerun, contents, cache_error, retry,
                    submissions, problem_data, current, processed >>

\* the program is run again, against the store a completed run left
StartRun ==
    /\ pc = "done"
    /\ rerun' = TRUE
    /\ pc' = "main"
    /\ path_cache' = {}
    /\ contents' = <<>>
    /\ cache_error' = NoError
    /\ retry' = IdleRetry
    /\ submissions' = <<>>
    /\ idx' = 0
    /\ problem_data' = NoProblem
    /\ art' = "none"
    /\ file_path' = <<>>
    /\ content' = ""
    /\ current' = NoCurrent
    /\ error' = NoError
    /\ processed' = <<>>
    /\ writes' = <<>>
    /\ log' = <<>>
    /\ UNCHANGED << env, listing, store >>

Next ==
    \/ MainEnv
    \/ Construct
    \/ InitPathCacheRoot
    \/ InitPathCacheStep
    \/ Preflight
    \/ GetSubmissions
    \/ LoopNext
    \/ GetProblemDetails
    \/ GetContents
    \/ UpdateFile
    \/ CreateFile
    \/ StartRun

Spec == Init /\ [][Next]_vars

\* the steps of one run: the interpreter always takes the program's next
\* step, and every remote call answers
RunStep ==
    \/ MainEnv
    \/ Construct
    \/ InitPathCacheRoot
    \/ InitPathCacheStep
    \/ Preflight
    \/ GetSubmissions
    \/ LoopNext
    \/ GetProblemDetails
    \/ GetContents
    \/ UpdateFile
    \/ CreateFile

FairSpec == Init /\ [][Next]_vars /\ WF_vars(RunStep)


(***************************************************************************)
(* The path derivation of process_submission on its own: Init draws the    *)
(* question and the submission, the actions derive the two paths.          *)
(***************************************************************************)
PathIds ==
    { <<"1">>, <<"4","2">>, <<"2","0","6">>, <<"2","2","1","6">>,
      <<"1","2","3","4","5">> }

PathDifficulties ==
    { <<"E","a","s","y">>, <<"M","e","d","i","u","m">>, <<"H","a","r","d">> }

PathLangs ==
    { <<"p","y","t","h","o","n">>, <<"P","y","t","h","o","n","3">>,
      <<"P","Y","T","H","O","N">>, <<"C","+","+">>, <<"r","u","s","t">>,
      <<"c","o","b","o","l">> }

PathSlugs == { "reverse-linked-list", "two-sum" }

PathProblems ==
    { [ ReverseLinkedList EXCEPT !.questionId = q, !.difficulty = d ] :
        q \in PathIds, d \in PathDifficulties }

PathSubmissions ==
    { [ SubPython EXCEPT !.title_slug = g, !.lang = l ] :
        g \in PathSlugs, l \in PathLangs }

InitPath ==
    /\ env \in { e \in Environments : e.GH_PAT # "" /\ e.GITHUB_REPO # ""
                                       /\ e.LEETCODE_SESSION # "" }
    /\ listing = <<>>
    /\ store = EmptyStore
    /\ rerun = FALSE
    /\ pc = "derive"
    /\ path_cache = {}
    /\ contents = <<>>
    /\ cache_error = NoError
    /\ retry = IdleRetry
    /\ \E s \in PathSubmissions : submissions = << s >>
    /\ idx = 1
    /\ problem_data \in PathProblems
    /\ art = "none"
    /\ file_path = <<>>
    /\ content = ""
    /\ current = NoCurrent
    /\ error = NoError
    /\ processed = <<>>
    /\ writes = <<>>
    /\ log = <<>>

\* file_path = f"{base_path}/solution.{extension}"
DeriveSolutionPath ==
    /\ pc = "derive"
    /\ art' = "solution"
    /\ file_path' = solution_path(problem_data, submissions[idx])
    /\ pc' = "derived"
    /\ UNCHANGED << env, listing, store, rerun, path_cache, contents,
                    cache_error, retry, submissions, idx, problem_data,
                    content, current, error, processed, writes, log >>

\* file_path = f"{base_path}/README.md"
DeriveReadmePath ==
    /\ pc = "derived"
    /\ art = "solution"
    /\ art' = "readme"
    /\ file_path' = readme_path(problem_data, submissions[idx])
    /\ UNCHANGED << env, listing, store, rerun, pc, path_cache, contents,
                    cache_error, retry, submissions, idx, problem_data,
                    content, current, error, processed, writes, log >>

NextPath == DeriveSolutionPath \/ DeriveReadmePath

SpecPath == InitPath /\ [][NextPath]_vars


(***************************************************************************)
(* Properties.                                                             *)
(***************************************************************************)
IsStoreWrite(e) == e.op \in { "update_file", "create_file" }

\* the artifacts of the k-th accepted submission are in the store
ArtifactsStored(k) ==
    LET sub == submissions[k]
        problem == ProblemDB[sub.title_slug]
        sol == solution_path(problem, sub)
        readme == readme_path(problem, sub) IN
    /\ sol \in DOMAIN store
    /\ Decode(store[sol].content) = sub.code
    /\ readme \in DOMAIN store
    /\ Decode(store[readme].content) = create_problem_readme(problem, stats_row(sub))

\* C1: a run that follows a completed run, with the same listing and the
\* same question data, issues no create_file and no update_file.
C1_SecondRunWritesNothing == rerun => writes = <<>>

\* C2: when the listing holds 3 accepted submissions and processing the
\* second one raised, the artifacts of the first and of the third are
\* written all the same.
C2_FailureIsIsolated ==
    (pc = "failed" /\ Len(submissions) = 3 /\ idx = 2)
        => (ArtifactsStored(1) /\ ArtifactsStored(3))

\* C3: a wrapped call whose operation failed exactly twice and then
\* succeeded returns that result to the caller after exactly 3 invocations
\* and exactly 2 sleeps.
C3_RetrySuccess ==
    (retry.status = "returned" /\ Len(retry.errs) = 2)
        => /\ retry.calls = 3
           /\ Len(retry.sleeps) = 2
           /\ error = NoError
           /\ retry.func = "get_submissions"
                => (pc = "loop" /\ submissions = AcceptedOf(listing))
           /\ retry.func = "get_problem_details"
                => (pc = "read" /\ problem_data = ProblemDB[submissions[idx].title_slug])

C3_Witness ==
    /\ retry.status = "returned"
    /\ Len(retry.errs) = 2
    /\ retry.func = "get_problem_details"
    /\ problem_data = ReverseLinkedList

\* C4: a wrapped call whose operation fails on every attempt invokes it
\* exactly 3 times and never more, sleeps exactly 2 times, and raises the
\* error of the last attempt unchanged; it neither returns nor swallows it.
C4_RetryExhaustion ==
    /\ retry.calls <= 3
    /\ retry.status = "raised"
         => /\ retry.calls = 3
            /\ Len(retry.errs) = 3
            /\ Len(retry.sleeps) = 2
            /\ retry.raised = retry.errs[3]
            /\ pc = "failed"
            /\ error = retry.errs[3]
    /\ Len(retry.errs) = 3
         => (retry.status = "raised" /\ pc = "failed" /\ error # NoError)

C4_Witness ==
    /\ retry.status = "raised"
    /\ Len(retry.errs) = 3
    /\ retry.errs[1] # retry.errs[3]
    /\ error = retry.errs[3]

\* C5: a store write is issued for a path only if the content computed for
\* it differs from the content last known for that path (what the read
\* that precedes the write returned), or the path is not in the cache.
C5_WriteOnlyIfChanged ==
    /\ \A k \in 1..Len(writes) :
         writes[k].known = NoContent \/ writes[k].known # writes[k].content
    /\ pc \in { "update", "create" }
         => \/ current.found /\ current.content # content
            \/ file_path \notin path_cache /\ file_path \notin DOMAIN store
    /\ pc \in { "update", "create" } /\ file_path \in DOMAIN store
         => Decode(store[file_path].content) # content

C5_Witness ==
    \E k \in 1..Len(writes) :
        /\ writes[k].op = "update_file"
        /\ writes[k].res = "ok"
        /\ writes[k].known # NoContent
        /\ writes[k].arg \in path_cache

\* C6: once a content has been written to a path, _update_or_create_file
\* given another content issues update_file, and given the same content
\* issues no write.
C6_ChangeDetection ==
    \A k \in 1..Len(log) :
        (log[k].op = "get_contents" /\ log[k].sub > 0 /\ log[k].res = "ok")
            => IF log[k].known = log[k].content
               THEN IF k = Len(log)
                    THEN pc \notin { "update", "create" }
                    ELSE ~ IsStoreWrite(log[k + 1])
               ELSE IF k = Len(log)
                    THEN pc = "update" /\ file_path = log[k].arg
                                       /\ content = log[k].content
                    ELSE /\ log[k + 1].op = "update_file"
                         /\ log[k + 1].arg = log[k].arg
                         /\ log[k + 1].content = log[k].content

\* the listing [A, B, B]: A is created, B updates it, the second B is skipped
C6_Witness ==
    /\ Len(writes) >= 3
    /\ writes[1].op = "create_file" /\ writes[1].res = "ok"
    /\ writes[3].op = "update_file" /\ writes[3].res = "ok"
    /\ writes[3].arg = writes[1].arg
    /\ writes[3].known = writes[1].content
    /\ idx = 3
    /\ art = "readme"
    /\ Len(log) = 2
    /\ log[2].op = "get_contents" /\ log[2].res = "ok"
    /\ log[2].arg = writes[3].arg
    /\ log[2].known = writes[3].content
    /\ log[2].content = writes[3].content
    /\ \A k \in 1..Len(writes) : writes[k].sub < 3

RECURSIVE IsSubsequence(_, _)
IsSubsequence(a, b) ==
    IF a = <<>> THEN TRUE
    ELSE IF b = <<>> THEN FALSE
    ELSE IF Head(a) = Head(b) THEN IsSubsequence(Tail(a), Tail(b))
    ELSE IsSubsequence(a, Tail(b))

\* C7: sync_solutions passes to process_submission the entries of the
\* listing whose status is 'Accepted', in listing order, and no other entry
\* causes a metadata fetch or a store write.
C7_Filtering ==
    /\ idx > 0
         => /\ \A k \in 1..Len(submissions) :
                  submissions[k].status_display = "Accepted"
            /\ IsSubsequence(submissions, listing)
            /\ Len(submissions) =
                  Cardinality({ k \in 1..Len(listing) :
                                  listing[k].status_display = "Accepted" })
    /\ Len(processed) <= Len(submissions)
    /\ processed = SubSeq(submissions, 1, Len(processed))
    /\ pc = "done" => processed = submissions
    /\ pc \in { "details", "read", "update", "create" }
         => /\ idx = Len(processed)
            /\ processed[idx].status_display = "Accepted"
    /\ \A k \in 1..Len(log) :
         log[k].op = "get_problem_details"
            => /\ log[k].sub \in 1..Len(processed)
               /\ processed[log[k].sub].status_display = "Accepted"
               /\ log[k].arg = << processed[log[k].sub].title_slug >>
    /\ \A k \in 1..Len(writes) :
         /\ writes[k].sub \in 1..Len(processed)
         /\ processed[writes[k].sub].status_display = "Accepted"
         /\ \/ writes[k].content = processed[writes[k].sub].code
            \/ writes[k].content =
                 create_problem_readme(ProblemDB[processed[writes[k].sub].title_slug],
                                       stats_row(processed[writes[k].sub]))

C7_Witness ==
    /\ pc = "done"
    /\ Len(listing) = 3
    /\ listing[2].status_display = "Wrong Answer"
    /\ Len(processed) = 2
    /\ processed = << listing[1], listing[3] >>
    /\ Len(writes) >= 2

\* the paths the claim gives, written out
ExpectedDifficulty == ( "Easy" :> "easy" @@ "Medium" :> "medium" @@ "Hard" :> "hard" )

ExpectedId ==
    ( "1" :> "0001" @@ "42" :> "0042" @@ "206" :> "0206" @@ "2216" :> "2216" @@
      "12345" :> "12345" )

ExpectedExtension ==
    ( "python" :> "py" @@ "Python3" :> "py" @@ "PYTHON" :> "py" @@ "C++" :> "cpp" @@
      "rust" :> "rs" @@ "cobol" :> "txt" )

ExpectedFolder ==
    ExpectedDifficulty[Join(problem_data.difficulty)] \o "/"
        \o ExpectedId[Join(problem_data.questionId)] \o "-"
        \o submissions[idx].title_slug

\* C8: the solution path is '{lowercased difficulty}/{id zero-padded to 4
\* digits}-{slug}/solution.{ext}' and the README path is the same folder's
\* README.md, ext being looked up case-insensitively in the language table
\* and 'txt' for a language not in it.
C8_PathDeterminism ==
    /\ (pc = "derived" /\ art = "solution")
         => PathStr(file_path) =
              ExpectedFolder \o "/solution."
                  \o ExpectedExtension[Join(submissions[idx].lang)]
    /\ (pc = "derived" /\ art = "readme")
         => PathStr(file_path) = ExpectedFolder \o "/README.md"
    /\ ( /\ pc = "derived" /\ art = "solution"
         /\ Join(problem_data.questionId) = "206"
         /\ Join(problem_data.difficulty) = "Easy"
         /\ submissions[idx].title_slug = "reverse-linked-list"
         /\ Join(submissions[idx].lang) = "python" )
         => PathStr(file_path) = "easy/0206-reverse-linked-list/solution.py"

C8_Witness ==
    /\ pc = "derived"
    /\ art = "solution"
    /\ Join(submissions[idx].lang) = "python"
    /\ PathStr(file_path) = "easy/0206-reverse-linked-list/solution.py"

\* C9: when a listing call of the traversal in _init_path_cache fails, the
\* construction fails and the run aborts: sync_solutions never runs on a
\* partly built cache.
C9_CacheInitFailureIsFatal == cache_error # NoError => pc = "failed"

\* C10: a store read, create or update that fails is attempted 3 times
\* before its failure is surfaced: one transient failure of get_contents,
\* create_file or update_file does not fail the submission.
C10_StoreCallsAreRetried ==
    ( /\ pc = "failed"
      /\ log # <<>>
      /\ log[Len(log)].sub > 0
      /\ log[Len(log)].op \in { "get_contents", "update_file", "create_file" }
      /\ log[Len(log)].res \in StoreErrors )
        => Cardinality({ k \in 1..Len(log) :
                           /\ log[k].op = log[Len(log)].op
                           /\ log[k].arg = log[Len(log)].arg }) >= Retries


\* C11: every successful create_file or update_file of a path comes with a
\* cache update for that path: after the write the path is in the cache.
C11_WriteUpdatesCache ==
    \A k \in 1..Len(writes) :
        writes[k].res = "ok" => writes[k].arg \in path_cache

MissingCredential ==
    env.GH_PAT = "" \/ env.GITHUB_REPO = "" \/ env.LEETCODE_SESSION = ""

\* C12: when one of GH_PAT, GITHUB_REPO, LEETCODE_SESSION is missing, main
\* raises a ValueError and no remote call has been attempted.
C12_ConfigurationErrorFirst ==
    MissingCredential
        => /\ pc \in { "main", "failed" }
           /\ pc = "failed" => error = ValueError
           /\ log = <<>>
           /\ writes = <<>>
           /\ processed = <<>>
           /\ path_cache = {}
           /\ retry = IdleRetry

C12_Witness ==
    /\ env.LEETCODE_SESSION = ""
    /\ pc = "failed"
    /\ error = ValueError
    /\ log = <<>>

PreflightFailed ==
    \E k \in 1..Len(log) : log[k].op = "preflight" /\ log[k].res = "raised"

ListingFailed ==
    \/ \E k \in 1..Len(log) : log[k].op = "get_submissions" /\ log[k].res = "raised"
    \/ retry.func = "get_submissions" /\ Len(retry.errs) = Retries

\* C13: when the connectivity test fails, or get_submissions fails on all 3
\* attempts, the run ends failed with that error re-raised, and no
\* process_submission call, metadata fetch or store write is issued.
C13_ListingFailureIsFatal ==
    (PreflightFailed \/ ListingFailed)
        => /\ pc = "failed"
           /\ error \in PlatformErrors
           /\ ListingFailed => (retry.calls = Retries /\ error = retry.errs[Retries])
           /\ PreflightFailed => retry = IdleRetry
           /\ processed = <<>>
           /\ writes = <<>>
           /\ submissions = <<>>
           /\ idx = 0
           /\ \A k \in 1..Len(log) :
                log[k].op \notin { "get_problem_details", "update_file", "create_file" }

C13_Witness ==
    /\ pc = "failed"
    /\ retry.func = "get_submissions"
    /\ retry.status = "raised"
    /\ log[Len(log)].op = "get_submissions"
    /\ \E s \in SubmissionPool : s \in { listing[k] : k \in 1..Len(listing) }
                                  /\ s.status_display = "Accepted"

\* C14: create_file is issued for a path only when the read of that path
\* reported not-found, and never for a path the read found, whatever error
\* update_file raised; update_file is issued only for a path the read found,
\* with the sha that read returned.
C14_CreateOnlyIfNotFound ==
    /\ pc = "create" => ~ current.found
    /\ pc = "update" => (current.found /\ file_path \in DOMAIN store
                          /\ current.sha = store[file_path].sha)
    /\ \A k \in 1..Len(writes) :
         /\ writes[k].op = "create_file" => writes[k].known = NoContent
         /\ writes[k].op = "update_file" => writes[k].known # NoContent


\* the submission process_submission is working on, and its two paths
CurrentSubmission == processed[Len(processed)]

CurrentSolutionPath ==
    solution_path(ProblemDB[CurrentSubmission.title_slug], CurrentSubmission)

CurrentReadmePath ==
    readme_path(ProblemDB[CurrentSubmission.title_slug], CurrentSubmission)

\* where an operation stands in the order of one process_submission call:
\* metadata fetch, then read / update / create of the solution, then of the
\* README
Position(e, solution, readme) ==
    LET phase == CASE e.op = "get_problem_details" -> 0
                   [] e.arg = solution -> 1
                   [] e.arg = readme -> 2
                   [] OTHER -> 3
        rank == CASE e.op = "get_problem_details" -> 0
                  [] e.op = "get_contents" -> 1
                  [] e.op = "update_file" -> 2
                  [] e.op = "create_file" -> 3
                  [] OTHER -> 4 IN
    phase * 5 + rank

IsReadmeOperation(e) ==
    Position(e, CurrentSolutionPath, CurrentReadmePath) \in 11..13

\* C15: submissions are processed one at a time in listing order; within one
\* submission the metadata fetch comes first, then the solution's read and
\* write, then the README's; no operation of the next submission starts
\* before the previous one's artifacts are stored; the README is not
\* attempted once the solution's write failed.
C15_Ordering ==
    /\ Len(processed) <= Len(submissions)
    /\ processed = SubSeq(submissions, 1, Len(processed))
    /\ \A k \in 1..(Len(writes) - 1) : writes[k].sub <= writes[k + 1].sub
    /\ \A k \in 1..Len(writes) : writes[k].sub \in 1..Len(processed)
    /\ processed # <<>> =>
         LET solution == CurrentSolutionPath
             readme == CurrentReadmePath
             position == [ k \in 1..Len(log) |-> Position(log[k], solution, readme) ] IN
         /\ idx \in { Len(processed), Len(processed) + 1 }
         /\ idx = Len(processed) + 1 => pc \in { "loop", "done" }
         /\ \A k \in 1..Len(log) : log[k].sub = Len(processed)
         /\ \A k \in 1..Len(log) : position[k] \in { 0, 6, 7, 8, 11, 12, 13 }
         /\ \A k \in 1..(Len(log) - 1) : position[k] < position[k + 1]
         /\ log # <<>> => log[1].op = "get_problem_details"
         /\ pc \in { "read", "update", "create" } =>
              (log # <<>> /\ log[1].res = "ok")
         /\ (\E j \in 1..Len(log) : position[j] \in 7..8 /\ log[j].res # "ok")
              => \A k \in 1..Len(log) : position[k] \notin 11..13
         /\ (pc = "details" /\ Len(processed) >= 2)
              => ArtifactsStored(Len(processed) - 1)

C15_Witness ==
    /\ Len(processed) = 2
    /\ pc = "loop"
    /\ idx = 3
    /\ Len(log) >= 4
    /\ \E k \in 1..Len(writes) : writes[k].sub = 1
    /\ \E k \in 1..Len(log) : IsReadmeOperation(log[k]) /\ IsStoreWrite(log[k])
    /\ \E k \in 1..Len(log) :
         /\ log[k].arg = CurrentSolutionPath
         /\ IsStoreWrite(log[k])
         /\ log[k].res = "ok"

DetailsFailed ==
    /\ processed # <<>>
    /\ \E k \in 1..Len(log) :
         log[k].op = "get_problem_details" /\ log[k].res = "raised"

\* C16: when get_problem_details fails on all 3 attempts, process_submission
\* raises that error, and the call has read or written neither the solution
\* path nor the README path.
C16_MetadataOutageWritesNothing ==
    DetailsFailed
        => /\ pc = "failed"
           /\ retry.func = "get_problem_details"
           /\ retry.calls = Retries
           /\ Len(retry.errs) = Retries
           /\ error = retry.errs[Retries]
           /\ Len(log) = 1
           /\ idx = Len(processed)
           /\ \A k \in 1..Len(writes) : writes[k].sub < Len(processed)

C16_Witness ==
    /\ DetailsFailed
    /\ pc = "failed"
    /\ Len(processed) = 2
    /\ writes # <<>>

RECURSIVE SumSeq(_)
SumSeq(s) == IF s = <<>> THEN 0 ELSE s[1] + SumSeq(Tail(s))

\* C17: with the base delay of 1 second the delay after failed attempt i
\* (i = 0, 1) is 1 * 2^i: 1 second, then 2 seconds; the delays increase
\* strictly, and one wrapped call never sleeps more than 3 seconds in all.
C17_BackoffSchedule ==
    LET sleeps == retry.sleeps IN
    /\ Len(sleeps) <= Retries - 1
    /\ Len(sleeps) = Len(retry.errs) - (IF retry.status \in {"raised", "exhausted"} THEN 1 ELSE 0)
    /\ \A k \in 1..Len(sleeps) : sleeps[k] = BackoffInSeconds * 2 ^ (k - 1)
    /\ \A j, k \in 1..Len(sleeps) : j < k => sleeps[j] < sleeps[k]
    /\ Len(sleeps) = 2 => sleeps = << 1, 2 >>
    /\ SumSeq(sleeps) <= 3

C17_Witness ==
    /\ retry.sleeps = << 1, 2 >>
    /\ retry.calls = Retries
    /\ retry.func = "get_problem_details"


Terminated == pc \in { "done", "failed" }

\* C18: when every remote call answers and the tree and the listing are
\* finite, every run that starts reaches completed or failed; no run retries
\* or loops forever.
C18_Termination == (pc = "main") ~> Terminated

C18_Witness ==
    /\ pc = "done"
    /\ Len(processed) = MaxListing
    /\ Len(writes) >= 2
    /\ cache_error = NoError


SolutionPathOf(k) ==
    solution_path(ProblemDB[submissions[k].title_slug], submissions[k])

ReadmePathOf(k) ==
    readme_path(ProblemDB[submissions[k].title_slug], submissions[k])

ReadmeOf(k) ==
    create_problem_readme(ProblemDB[submissions[k].title_slug],
                          stats_row(submissions[k]))

\* the last accepted submission, in listing order, with the same path as k
LastWithSolutionPath(k) ==
    CHOOSE j \in k..Len(submissions) :
        /\ SolutionPathOf(j) = SolutionPathOf(k)
        /\ \A m \in (j + 1)..Len(submissions) : SolutionPathOf(m) # SolutionPathOf(k)

LastWithReadmePath(k) ==
    CHOOSE j \in k..Len(submissions) :
        /\ ReadmePathOf(j) = ReadmePathOf(k)
        /\ \A m \in (j + 1)..Len(submissions) : ReadmePathOf(m) # ReadmePathOf(k)

\* C19: after a run that completes without error, every path the run
\* touched holds the content built from the last accepted submission, in
\* listing order, that maps to that path.
C19_LastInListingOrderWins ==
    pc = "done" =>
        \A k \in 1..Len(submissions) :
            /\ SolutionPathOf(k) \in DOMAIN store
            /\ Decode(store[SolutionPathOf(k)].content)
                 = submissions[LastWithSolutionPath(k)].code
            /\ ReadmePathOf(k) \in DOMAIN store
            /\ Decode(store[ReadmePathOf(k)].content)
                 = ReadmeOf(LastWithReadmePath(k))

C19_Witness ==
    /\ pc = "done"
    /\ \E j, k \in 1..Len(submissions) :
         /\ j < k
         /\ SolutionPathOf(j) = SolutionPathOf(k)
         /\ submissions[j].code # submissions[k].code
         /\ LastWithSolutionPath(j) = k
         /\ Decode(store[SolutionPathOf(j)].content) = submissions[k].code
         /\ \E w \in 1..Len(writes) :
              /\ writes[w].sub = k
              /\ writes[w].arg = SolutionPathOf(k)
              /\ writes[w].op = "update_file"


\* what process_submission does after operation e, told from the answers
\* alone: the position it moves to and the path it works on
AfterFile(e) ==
    IF e.arg = CurrentSolutionPath
    THEN [ pc |-> "read", path |-> CurrentReadmePath ]
    ELSE [ pc |-> "loop", path |-> e.arg ]

AfterOperation(e) ==
    CASE e.op = "get_problem_details" ->
           IF e.res = "ok" THEN [ pc |-> "read", path |-> CurrentSolutionPath ]
           ELSE [ pc |-> "failed", path |-> <<>> ]
      [] e.op = "get_contents" ->
           IF e.res = "ok"
           THEN IF e.known # e.content THEN [ pc |-> "update", path |-> e.arg ]
                ELSE AfterFile(e)
           ELSE IF e.res = NotFound THEN [ pc |-> "create", path |-> e.arg ]
                ELSE [ pc |-> "failed", path |-> e.arg ]
      [] e.op = "update_file" ->
           IF e.res = "ok" THEN AfterFile(e)
           ELSE IF e.res = NotFound THEN [ pc |-> "create", path |-> e.arg ]
                ELSE [ pc |-> "failed", path |-> e.arg ]
      [] e.op = "create_file" ->
           IF e.res = "ok" THEN AfterFile(e)
           ELSE [ pc |-> "failed", path |-> e.arg ]
      [] OTHER -> [ pc |-> "failed", path |-> <<>> ]

\* the operation issued next is a function of the answers received so far
DecisionsIgnoreCache ==
    (processed # <<>> /\ log # <<>> /\ pc # "done") =>
        LET next == AfterOperation(log[Len(log)]) IN
        /\ pc = next.pc
        /\ pc \in { "read", "update", "create" } => file_path = next.path

Constructed == pc \notin { "main", "init", "cache_root", "cache_walk" }

\* after construction the cache only grows, by the path create_file has
\* just succeeded for
CacheGrowsByCreatedPath ==
    (Constructed /\ pc' # "main") =>
        \/ path_cache' = path_cache
        \/ /\ pc = "create"
           /\ path_cache' = path_cache \cup { file_path }
           /\ file_path \notin DOMAIN store
           /\ file_path \in DOMAIN store'
           /\ Len(writes') = Len(writes) + 1
           /\ writes'[Len(writes')].op = "create_file"
           /\ writes'[Len(writes')].res = "ok"
           /\ writes'[Len(writes')].arg = file_path

\* C20: the path cache does not influence what is read, created or updated:
\* every operation issued follows from the store's and the platform's
\* answers, whatever the cache holds; after construction the cache only
\* grows, and only by a path create_file has just succeeded for.
C20_CacheDoesNotDecide ==
    /\ []DecisionsIgnoreCache
    /\ [][CacheGrowsByCreatedPath]_vars

C20_Witness ==
    /\ cache_error # NoError
    /\ \E w \in 1..Len(writes) :
         /\ writes[w].op = "update_file"
         /\ writes[w].res = "ok"
         /\ writes[w].arg \notin path_cache
    /\ \E w \in 1..Len(writes) :
         /\ writes[w].op = "create_file"
         /\ writes[w].res = "ok"
         /\ writes[w].arg \in path_cache

====
